---------------------------- MODULE Spec2Model ----------------------------
(***************************************************************************)
(* Model of the AI messaging core of bountrip-api:                         *)
(*   AIService.adjustContent  (src/services/ai.service.js:425-487)         *)
(*   AIService.sendMessage    (src/services/ai.service.js:248-348)         *)
(*   AIService.solveModelInfo (src/services/ai.service.js:358-394)         *)
(*                                                                         *)
(* Texts are sequences of characters (small integers), a history is a      *)
(* sequence of {role, content} messages.  The token estimator is the       *)
(* third-party routine promptTokensEstimate; the model draws it from a     *)
(* family of estimators (monotone and not) instead of fixing one.          *)
(***************************************************************************)
EXTENDS Integers, Sequences, FiniteSets, TLC

VARIABLES
    \* ---- adjustContent: parameters and locals
    system,          \* parameter/local `system`   (text)
    history,         \* parameter `history`: the caller's array, shifted in place
    prompt,          \* parameter/local `prompt`   (text)
    contextWindow,   \* parameter `contextWindow`
    reservedTokens,  \* parameter `reservedTokens`
    targetTokens,    \* const targetTokens
    currentTokens,   \* let currentTokens
    iteration,       \* let iteration
    pc,              \* position in adjustContent: "idle", "start", "loop", "done"
    est,             \* which estimator stands for promptTokensEstimate
    \* ---- adjustContent: history of the call (what the claims speak about)
    input,           \* the triple the running call was entered with
    enteredFitting,  \* currentTokens <= targetTokens held on entry of the call
    trims,           \* trimming actions applied by the running call
    exitedBy,        \* "none", "fit", "exhausted", "ceiling"
    calls,           \* number of adjustContent calls entered so far
    prevFit,         \* the previous call ended with currentTokens <= targetTokens
    \* ---- sendMessage: the data object, locals and outcome
    data,            \* the `data` argument of sendMessage
    env,             \* providers whose API key is set in process.env
    spc,             \* position in sendMessage
    modelInfo,       \* result of solveModelInfo
    requestData,     \* the assembled request (NoRequest before assembly)
    posts,           \* the axios.post calls made, in order
    error,           \* message of the error sendMessage rejects with ("" if none)
    thrown,          \* the Error object sendMessage rejects with, by its properties
    cause,           \* the error of axios.post caught by the catch block
    \* ---- NearService: the static connection, the ledger, the running operations
    nearConnection,  \* static nearConnection: Null or the connection connect() gave
    connects,        \* number of times connect(config) was invoked
    ops,             \* per request in flight: the NearService operation it runs
    started,         \* number of operations started so far
    ledger,          \* per network and account: the access keys with their nonces
    ledgerLog,       \* the ledger after each accepted broadcast, in order
    built,           \* the transactions _createEncodedTransaction returned, in order
    \* ---- BountripController.store: the request, the record store, the response
    req,             \* req.body of the store call
    stPos,           \* position in store
    users,           \* idNear of the users in the record store
    bounties,        \* the bounty table: a sequence of rows, id = position
    stUser,          \* const user
    bountyDb,        \* let bountyDb
    idOnChain,       \* let idOnChain, a string once line 223 has run
    res,             \* the response given with res.respond (NoResponse before)
    writes           \* the bounty writes of this call, in order

adjVars  == <<system, history, prompt, contextWindow, reservedTokens, targetTokens,
              currentTokens, iteration, pc, est, input, enteredFitting, trims,
              exitedBy, calls, prevFit>>
sendVars == <<data, env, spc, modelInfo, requestData, posts, error, thrown, cause>>
nearVars == <<nearConnection, connects, ops, started, ledger, ledgerLog, built>>
storeVars == <<req, stPos, users, bounties, stUser, bountyDb, idOnChain, res, writes>>
otherVars == <<nearVars, storeVars>>
aiVars   == <<adjVars, sendVars>>
vars     == <<adjVars, sendVars, nearVars, storeVars>>

----------------------------------------------------------------------------
(* Bounds of the model *)

\* longest short history drawn for a call
MaxHist == 3
\* a history long enough to outlast the iteration ceiling
LongHist == 103
\* characters of one history message
MsgLen == 8
\* adjustContent calls chained on one conversation (a call, then a call on its result)
MaxCalls == 2

(* Program constants *)

maxIterations       == 100
approxCharsPerToken == 4
MinChars            == 50
TokensPerTool       == 150

----------------------------------------------------------------------------
(* JavaScript values and primitives *)

Min(a, b) == IF a <= b THEN a ELSE b
Max(a, b) == IF a >= b THEN a ELSE b

\* Math.ceil(n * 0.5) for an integer n
CeilHalf(n) == (n + 1) \div 2

\* Math.ceil(n / 4) for a natural n
CeilQuarter(n) == (n + 3) \div 4

\* s.slice(0, -n) of a string: end index -n counts from the end, and -0 is 0,
\* so n = 0 yields the empty string
SliceEndBroken(s, n) ==
    SubSeq(s, 1, Len(s) - n + 1)
SliceEnd(s, n) ==
    IF n = 0 THEN << >>
    ELSE IF n > 0 THEN SubSeq(s, 1, Max(Len(s) - n, 0))
    ELSE SubSeq(s, 1, Min(0 - n, Len(s)))

\* history.shift(): the array without its first element
ShiftDropsLast(h) == SubSeq(h, 1, Len(h) - 1)
Shift(h) == Tail(h)

\* a text of n characters
Text(n) == [i \in 1..n |-> i % 7]

\* the i-th message of a conversation history
HistoryEntry(i) ==
    [role    |-> IF i % 2 = 1 THEN "user" ELSE "assistant",
     content |-> [k \in 1..MsgLen |-> i]]

HistoryOf(n) == [i \in 1..n |-> HistoryEntry(i)]

----------------------------------------------------------------------------
(* Token estimation: estimateTokens(messages) = promptTokensEstimate({messages}) *)

Estimators == {"ratio", "chars", "flat", "inverse"}

\* the estimators for which removing a message or shortening a content never
\* increases the estimate
MonotoneEstimators == {"ratio", "chars", "flat"}

\* what one message of n characters adds to the estimate
MessageTokens(e, n) ==
    CASE e = "ratio" -> 4 + CeilQuarter(n)    \* overhead + a token per 4 characters
      [] e = "chars" -> 1 + n                 \* overhead + a token per character
      [] OTHER       -> n

\* sum of MessageTokens over the messages lo..hi (by halves)
RECURSIVE SumOver(_, _, _, _)
SumOver(e, msgs, lo, hi) ==
    IF lo > hi THEN 0
    ELSE IF lo = hi THEN MessageTokens(e, Len(msgs[lo].content))
    ELSE LET mid == (lo + hi) \div 2
         IN  SumOver(e, msgs, lo, mid) + SumOver(e, msgs, mid + 1, hi)

estimateTokens(e, msgs) ==
    CASE e = "ratio"   -> 3 + SumOver(e, msgs, 1, Len(msgs))
      [] e = "chars"   -> SumOver(e, msgs, 1, Len(msgs))
      [] e = "flat"    -> 1000                        \* blind to the content
      [] e = "inverse" -> Max(400 - SumOver(e, msgs, 1, Len(msgs)), 0)  \* grows when content shrinks

\* [ {role: 'system', content: system}, ...history, {role: 'user', content: prompt} ]
MessagesPromptFirst(s, h, p) ==
    << [role |-> "user", content |-> p] >> \o h \o << [role |-> "system", content |-> s] >>
Messages(s, h, p) ==
    << [role |-> "system", content |-> s] >> \o h \o << [role |-> "user", content |-> p] >>

\* the first estimate of adjustContent
InitialTokensNoHistory(e, s, h, p) == estimateTokens(e, Messages(s, << >>, p))
InitialTokens(e, s, h, p) == estimateTokens(e, Messages(s, h, p))

\* the estimate recomputed at the end of an iteration
RecomputedTokens(e, s, h, p) == estimateTokens(e, Messages(s, h, p))

----------------------------------------------------------------------------
(* adjustContent(system, history, prompt, contextWindow, reservedTokens) *)

\* while (currentTokens > targetTokens)
LoopCondInclusive(cur, target) == cur >= target
LoopCond(cur, target) == cur > target

\* if (iteration > maxIterations) break
CeilingOffByOne(iter) == iter > maxIterations + 1
ExceedsCeiling(iter) == iter > maxIterations

\* chunkSize = Math.ceil(tokensOver * 0.5); charsToRemove = chunkSize * approxCharsPerToken
CharsToRemoveRoundedDown(tokensOver) == (tokensOver \div 2) * approxCharsPerToken
CharsToRemove(tokensOver) == CeilHalf(tokensOver) * approxCharsPerToken

\* Math.min(charsToRemove, text.length - 50)
TrimLengthNoFloor(charsToRemove, len) == charsToRemove
TrimLength(charsToRemove, len) == Min(charsToRemove, len - MinChars)

\* if (history.length > 1)
CanDropHistoryLate(h) == Len(h) > 2
CanDropHistory(h) == Len(h) > 1

\* else if (system.length > 50)
CanTrimSystemAboveNext(s) == Len(s) > MinChars + 1
CanTrimSystem(s) == Len(s) > MinChars

\* else if (prompt.length > 50)
CanTrimPromptNever(p) == FALSE
CanTrimPrompt(p) == Len(p) > MinChars

\* The call: parameters bound, nothing computed yet.
Call(s, h, p, cw, r) ==
    /\ system' = s
    /\ history' = h
    /\ prompt' = p
    /\ contextWindow' = cw
    /\ reservedTokens' = r
    /\ input' = [system |-> s, history |-> h, prompt |-> p]
    /\ pc' = "start"
    /\ calls' = calls + 1
    /\ trims' = 0
    /\ iteration' = 0
    /\ exitedBy' = "none"
    /\ targetTokens' = 0
    /\ currentTokens' = 0
    /\ enteredFitting' = FALSE
    /\ prevFit' = (exitedBy = "fit")

\* lines 426-436: targetTokens, the first estimate, iteration = 0
Enter ==
    /\ pc = "start"
    /\ targetTokens' = contextWindow - reservedTokens
    /\ currentTokens' = InitialTokens(est, system, history, prompt)
    /\ enteredFitting' =
          (estimateTokens(est, Messages(system, history, prompt))
              <= contextWindow - reservedTokens)
    /\ iteration' = 0
    /\ pc' = "loop"
    /\ UNCHANGED <<system, history, prompt, contextWindow, reservedTokens, est,
                   input, trims, exitedBy, calls, prevFit, sendVars, otherVars>>

\* line 438 false: the loop ends on its condition, lines 484-486 return
ExitFit ==
    /\ pc = "loop"
    /\ ~LoopCond(currentTokens, targetTokens)
    /\ pc' = "done"
    /\ exitedBy' = "fit"
    /\ UNCHANGED <<system, history, prompt, contextWindow, reservedTokens, est,
                   targetTokens, currentTokens, iteration, input, enteredFitting,
                   trims, calls, prevFit, sendVars, otherVars>>

\* lines 439-443: the iteration that passes the ceiling breaks
ExitCeiling ==
    /\ pc = "loop"
    /\ LoopCond(currentTokens, targetTokens)
    /\ ExceedsCeiling(iteration + 1)
    /\ iteration' = iteration + 1
    /\ pc' = "done"
    /\ exitedBy' = "ceiling"
    /\ UNCHANGED <<system, history, prompt, contextWindow, reservedTokens, est,
                   targetTokens, currentTokens, input, enteredFitting, trims,
                   calls, prevFit, sendVars, otherVars>>

\* lines 455-458 and 475-479: drop the oldest history entry, re-estimate
DropHistory ==
    /\ pc = "loop"
    /\ LoopCond(currentTokens, targetTokens)
    /\ ~ExceedsCeiling(iteration + 1)
    /\ CanDropHistory(history)
    /\ iteration' = iteration + 1
    /\ history' = Shift(history)
    /\ currentTokens' = RecomputedTokens(est, system, Shift(history), prompt)
    /\ trims' = trims + 1
    /\ UNCHANGED <<system, prompt, contextWindow, reservedTokens, est, targetTokens,
                   pc, input, enteredFitting, exitedBy, calls, prevFit, sendVars, otherVars>>

\* lines 459-463 and 475-479: trim the end of system, re-estimate
TrimSystem ==
    /\ pc = "loop"
    /\ LoopCond(currentTokens, targetTokens)
    /\ ~ExceedsCeiling(iteration + 1)
    /\ ~CanDropHistory(history)
    /\ CanTrimSystem(system)
    /\ LET tokensOver == currentTokens - targetTokens
           trimLength == TrimLength(CharsToRemove(tokensOver), Len(system))
           trimmed    == SliceEnd(system, trimLength)
       IN  /\ system' = trimmed
           /\ currentTokens' = RecomputedTokens(est, trimmed, history, prompt)
    /\ iteration' = iteration + 1
    /\ trims' = trims + 1
    /\ UNCHANGED <<history, prompt, contextWindow, reservedTokens, est, targetTokens,
                   pc, input, enteredFitting, exitedBy, calls, prevFit, sendVars, otherVars>>

\* lines 464-468 and 475-479: trim the end of prompt, re-estimate
TrimPrompt ==
    /\ pc = "loop"
    /\ LoopCond(currentTokens, targetTokens)
    /\ ~ExceedsCeiling(iteration + 1)
    /\ ~CanDropHistory(history)
    /\ ~CanTrimSystem(system)
    /\ CanTrimPrompt(prompt)
    /\ LET tokensOver == currentTokens - targetTokens
           trimLength == TrimLength(CharsToRemove(tokensOver), Len(prompt))
           trimmed    == SliceEnd(prompt, trimLength)
       IN  /\ prompt' = trimmed
           /\ currentTokens' = RecomputedTokens(est, system, history, trimmed)
    /\ iteration' = iteration + 1
    /\ trims' = trims + 1
    /\ UNCHANGED <<system, history, contextWindow, reservedTokens, est, targetTokens,
                   pc, input, enteredFitting, exitedBy, calls, prevFit, sendVars, otherVars>>

\* lines 469-472: nothing left to trim, break
ExitExhausted ==
    /\ pc = "loop"
    /\ LoopCond(currentTokens, targetTokens)
    /\ ~ExceedsCeiling(iteration + 1)
    /\ ~CanDropHistory(history)
    /\ ~CanTrimSystem(system)
    /\ ~CanTrimPrompt(prompt)
    /\ iteration' = iteration + 1
    /\ pc' = "done"
    /\ exitedBy' = "exhausted"
    /\ UNCHANGED <<system, history, prompt, contextWindow, reservedTokens, est,
                   targetTokens, currentTokens, input, enteredFitting, trims,
                   calls, prevFit, sendVars, otherVars>>

\* one iteration of the loop that trims something
Trimming == DropHistory \/ TrimSystem \/ TrimPrompt

----------------------------------------------------------------------------
(* adjustContent called on its own: the arguments come from bounded sets *)

SystemLens     == {0, 40, 50, 51, 60}
PromptLens     == {30, 50, 53, 70}
ContextWindows == {20, 40, 200, 330}
ReservedChoices == {0, 100, 300}

NoRequest == [none |-> TRUE]
NoModel   == [none |-> TRUE]
NoData    == [none |-> TRUE]
NoError   == [none |-> TRUE]

\* null / undefined reference of the NearService and store parts
Null       == [null |-> TRUE]
NoResponse == [none |-> TRUE]

\* a request slot that runs no NearService operation
IdleOp ==
    [kind |-> "none", networkId |-> "none", pos |-> "idle", pending |-> 0,
     sender |-> "none", prizes |-> << >>, actions |-> << >>, key |-> "none",
     target |-> 0, used |-> << >>, error |-> ""]

\* no NearService operation was ever started
NearIdle ==
    /\ nearConnection = Null
    /\ connects = 0
    /\ ops = [p \in {} |-> IdleOp]
    /\ started = 0
    /\ ledger = << >>
    /\ ledgerLog = << >>
    /\ built = << >>

\* no store call is running
StoreIdle ==
    /\ req = Null
    /\ stPos = "none"
    /\ users = {}
    /\ bounties = << >>
    /\ stUser = Null
    /\ bountyDb = Null
    /\ idOnChain = Null
    /\ res = NoResponse
    /\ writes = << >>

SendIdle ==
    /\ data = NoData
    /\ env = {}
    /\ spc = "none"
    /\ modelInfo = NoModel
    /\ requestData = NoRequest
    /\ posts = << >>
    /\ error = ""
    /\ thrown = NoError
    /\ cause = NoError

AdjustArgs ==
    /\ \/ /\ system \in {Text(n) : n \in SystemLens}
          /\ prompt \in {Text(n) : n \in PromptLens}
          /\ history \in {HistoryOf(n) : n \in 0..MaxHist}
          /\ contextWindow \in ContextWindows
          /\ reservedTokens \in ReservedChoices
          /\ est \in Estimators
       \/ /\ system \in {Text(40), Text(60)}
          /\ prompt = Text(30)
          /\ history = HistoryOf(LongHist)
          /\ contextWindow \in {20, 330}
          /\ reservedTokens \in {0, 100}
          /\ est \in {"ratio", "flat"}
    /\ input = [system |-> system, history |-> history, prompt |-> prompt]
    /\ pc = "start"
    /\ calls = 1
    /\ trims = 0
    /\ iteration = 0
    /\ exitedBy = "none"
    /\ targetTokens = 0
    /\ currentTokens = 0
    /\ enteredFitting = FALSE
    /\ prevFit = FALSE

Init == AdjustArgs /\ SendIdle /\ NearIdle /\ StoreIdle

\* adjustContent is not running
AdjustIdle ==
    /\ system = << >>
    /\ history = << >>
    /\ prompt = << >>
    /\ contextWindow = 0
    /\ reservedTokens = 0
    /\ est = "ratio"
    /\ input = [system |-> << >>, history |-> << >>, prompt |-> << >>]
    /\ pc = "idle"
    /\ calls = 0
    /\ trims = 0
    /\ iteration = 0
    /\ exitedBy = "none"
    /\ targetTokens = 0
    /\ currentTokens = 0
    /\ enteredFitting = FALSE
    /\ prevFit = FALSE

\* the caller passes the returned triple to adjustContent again
CallAgain ==
    /\ pc = "done"
    /\ spc = "none"
    /\ calls < MaxCalls
    /\ Call(system, history, prompt, contextWindow, reservedTokens)
    /\ UNCHANGED <<est, sendVars, otherVars>>

Next ==
    \/ Enter
    \/ ExitFit
    \/ ExitCeiling
    \/ DropHistory
    \/ TrimSystem
    \/ TrimPrompt
    \/ ExitExhausted
    \/ CallAgain

Spec == Init /\ [][Next]_vars

\* adjustContent is synchronous code: a step that can be taken is taken
LiveSpec == Init /\ [][Next]_vars /\ WF_vars(Next)

----------------------------------------------------------------------------
(* JavaScript values of the data object: a value with its type tag *)

Undef  == [t |-> "undefined"]
Absent == [t |-> "absent"]      \* a key the object does not have
Unread == [t |-> "unread"]      \* a field of data not read so far
Str(s) == [t |-> "string", v |-> s]   \* a string held as a TLA+ string
Txt(s) == [t |-> "text", v |-> s]     \* a string held as its characters
Num(n) == [t |-> "number", v |-> n]
Arr(a) == [t |-> "array", v |-> a]

\* ToBoolean: undefined, '', 0 are falsy; arrays and non-empty strings are truthy
Truthy(x) ==
    CASE x.t = "string" -> x.v # ""
      [] x.t = "text"   -> x.v # << >>
      [] x.t = "number" -> x.v # 0
      [] x.t = "array"  -> TRUE
      [] OTHER          -> FALSE

\* a || b
OrElse(a, b) == IF Truthy(a) THEN a ELSE b

IsArray(x) == x.t = "array"

----------------------------------------------------------------------------
(* The model catalogs of assets/data/ai-models.js and solveModelInfo *)

openAIModels ==
    << [name |-> "gpt-4o-2024-08-06", contextWindow |-> Num(128000)],
       [name |-> "gpt-small", contextWindow |-> Num(40)] >>
perplexityModels ==
    << [name |-> "sonar", contextWindow |-> Undef],
       [name |-> "shared", contextWindow |-> Num(60)] >>
groqModels ==
    << [name |-> "llama", contextWindow |-> Num(30)],
       [name |-> "shared", contextWindow |-> Num(200)],
       [name |-> "zero", contextWindow |-> Num(0)] >>

DefaultContextWindow == 4096

EnvKeys == {"OPENAI_API_KEY", "PERPLEXITY_API_KEY", "GROQ_API_KEY"}

\* models.some(m => m.name === model)
Some(models, name) == \E i \in 1..Len(models) : models[i].name = name

\* models.find(m => m.name === model): the first match, undefined if none
FindLast(models, name) ==
    IF Some(models, name)
    THEN models[CHOOSE i \in 1..Len(models) :
                  /\ models[i].name = name
                  /\ \A j \in (i + 1)..Len(models) : models[j].name # name]
    ELSE Undef
Find(models, name) ==
    IF Some(models, name)
    THEN models[CHOOSE i \in 1..Len(models) :
                  /\ models[i].name = name
                  /\ \A j \in 1..(i - 1) : models[j].name # name]
    ELSE Undef

Failure(msg) == [ok |-> FALSE, message |-> msg]

\* solveModelInfo(model), reading process.env
solveModelInfoNoTokenCheck(model, environment) ==
    LET allModels == openAIModels \o perplexityModels \o groqModels
        found     == Find(allModels, model)
        provider  == IF Some(openAIModels, model) THEN "openai"
                     ELSE IF Some(perplexityModels, model) THEN "perplexity"
                     ELSE IF Some(groqModels, model) THEN "groq"
                     ELSE "none"
        key       == CASE provider = "openai"     -> "OPENAI_API_KEY"
                       [] provider = "perplexity" -> "PERPLEXITY_API_KEY"
                       [] provider = "groq"       -> "GROQ_API_KEY"
                       [] OTHER                   -> "none"
    IN  IF found = Undef
        THEN Failure("Model info not found for " \o model)
        ELSE IF provider = "none"
        THEN Failure("Provider not found for model: " \o model)
        ELSE [ok |-> TRUE,
              name |-> found.name,
              provider |-> provider,
              authToken |-> key,
              contextWindow |-> OrElse(found.contextWindow, Num(DefaultContextWindow)).v]
solveModelInfo(model, environment) ==
    LET allModels == openAIModels \o perplexityModels \o groqModels
        found     == Find(allModels, model)
        provider  == IF Some(openAIModels, model) THEN "openai"
                     ELSE IF Some(perplexityModels, model) THEN "perplexity"
                     ELSE IF Some(groqModels, model) THEN "groq"
                     ELSE "none"
        key       == CASE provider = "openai"     -> "OPENAI_API_KEY"
                       [] provider = "perplexity" -> "PERPLEXITY_API_KEY"
                       [] provider = "groq"       -> "GROQ_API_KEY"
                       [] OTHER                   -> "none"
    IN  IF found = Undef
        THEN Failure("Model info not found for " \o model)
        ELSE IF provider = "none"
        THEN Failure("Provider not found for model: " \o model)
        ELSE IF key \notin environment
        THEN Failure("Auth token not found for provider: " \o provider)
        ELSE [ok |-> TRUE,
              name |-> found.name,
              provider |-> provider,
              authToken |-> key,
              contextWindow |-> OrElse(found.contextWindow, Num(DefaultContextWindow)).v]

\* solveProviderUrl(provider)
solveProviderUrl(provider) ==
    CASE provider = "openai"     -> "https://api.openai.com/v1/chat/completions"
      [] provider = "perplexity" -> "https://api.perplexity.ai/chat/completions"
      [] provider = "groq"       -> "https://api.groq.com/openai/v1/chat/completions"

----------------------------------------------------------------------------
(* sendMessage(data, provider) *)

\* most tools declared in a request
MaxTools == 2

ToolsList(n) == [i \in 1..n |-> [type |-> "function", name |-> i]]

\* the catch block: new Error('Error procesando la solicitud: ' + error.message)
Wrapped(msg) == "Error procesando la solicitud: " \o msg

\* (Array.isArray(tools) && tools.length > 0) ? tools.length * 150 : 0
ReservedForAnyLength(tools) ==
    IF tools.t \in {"array", "text"} THEN Len(tools.v) * TokensPerTool ELSE 0
ReservedFor(tools) ==
    IF IsArray(tools) /\ Len(tools.v) > 0 THEN Len(tools.v) * TokensPerTool ELSE 0

\* max_tokens: max_tokens || maxTokensCalculation
MaxTokensComputedOnly(given, computed) == Num(computed)
MaxTokensField(given, computed) == OrElse(given, Num(computed))

\* if (json_schema) { if (!json_schema_name) throw ... }
SchemaNameUnchecked(schema, name) == FALSE
SchemaNameMissing(schema, name) == Truthy(schema) /\ ~Truthy(name)

\* requestData.response_format, when json_schema is given
ResponseFormat(schema, name) ==
    IF Truthy(schema)
    THEN [type |-> "json_schema",
          json_schema |-> [name |-> name, schema |-> schema, strict |-> TRUE]]
    ELSE Absent

\* Array.isArray(tools) && tools.length > 0 && provider === 'openai' && !stream
AttachesToolsAnyProvider(tools, provider, stream) ==
    /\ IsArray(tools)
    /\ Len(tools.v) > 0
AttachesToolsWhenTruthy(tools, provider, stream) ==
    /\ Truthy(tools)
    /\ provider = "openai"
    /\ ~stream
AttachesTools(tools, provider, stream) ==
    /\ IsArray(tools)
    /\ Len(tools.v) > 0
    /\ provider = "openai"
    /\ ~stream

\* new Error(message): an object whose only own property is the message
NewError(msg) == [message |-> msg]

\* (!model ? 'model' : 'prompt')
MissingFieldPromptFirst(model, prmpt) == IF ~Truthy(prmpt) THEN "prompt" ELSE "model"
MissingField(model, prmpt) == IF ~Truthy(model) THEN "model" ELSE "prompt"

\* lines 267-269: model and prompt are required; the throw is outside the try
SendValidate ==
    /\ spc = "validate"
    /\ IF ~Truthy(data.model) \/ ~Truthy(data.prompt)
       THEN /\ error' = "Faltan campos requeridos: "
                           \o MissingField(data.model, data.prompt)
            /\ thrown' = NewError(error')
            /\ spc' = "failed"
       ELSE /\ spc' = "resolve"
            /\ UNCHANGED <<error, thrown>>
    /\ UNCHANGED <<adjVars, otherVars, data, env, modelInfo, requestData, posts, cause>>

\* lines 272-274: solveModelInfo; its throws land in the catch block
SendResolve ==
    /\ spc = "resolve"
    /\ LET info == solveModelInfo(data.model.v, env)
       IN  IF info.ok
           THEN /\ modelInfo' = info
                /\ spc' = "budget"
                /\ UNCHANGED <<error, thrown>>
           ELSE /\ error' = Wrapped(info.message)
                /\ thrown' = NewError(error')
                /\ spc' = "failed"
                /\ UNCHANGED modelInfo
    /\ UNCHANGED <<adjVars, otherVars, data, env, requestData, posts, cause>>

\* lines 279-280: reservedTokens, then the call of adjustContent on the
\* destructured system (default ''), history (the array of data) and prompt
SendBudget ==
    /\ spc = "budget"
    /\ Call(IF data.system = Undef THEN << >> ELSE data.system.v,
            history,
            data.prompt.v,
            modelInfo.contextWindow,
            ReservedFor(data.tools))
    /\ spc' = "budgeting"
    /\ UNCHANGED <<est, otherVars, data, env, modelInfo, requestData, posts, error, thrown, cause>>

MaxTokensChoices  == {Undef, Num(0), Num(64)}
SchemaChoices     == {Undef, Str("schema")}
SchemaNameChoices == {Undef, Str("travel_tags")}
StopChoices       == {Str(""), Str("END")}
ToolChoiceChoices == {Undef, Str("auto")}

\* lines 281-324: take the adjusted content, build messages and requestData.
\* max_tokens, json_schema, json_schema_name, stop and toolChoice are fields of
\* data that sendMessage reads only here: they are drawn when they are read.
SendAssemble ==
    /\ spc = "budgeting"
    /\ pc = "done"
    /\ \E mt \in MaxTokensChoices, js \in SchemaChoices, jn \in SchemaNameChoices,
          st \in StopChoices, tc \in ToolChoiceChoices :
         LET messages == Messages(system, history, prompt)
             maxTokensCalculation ==
                 contextWindow - estimateTokens(est, messages) - reservedTokens
             attach == AttachesTools(data.tools, modelInfo.provider, data.stream)
             base == [model           |-> data.model.v,
                      messages        |-> messages,
                      max_tokens      |-> MaxTokensField(mt, maxTokensCalculation),
                      stream          |-> data.stream,
                      response_format |-> Absent,
                      tools           |-> Absent,
                      tool_choice     |-> Absent,
                      stop            |-> Absent]
         IN  /\ data' = [data EXCEPT !.max_tokens = mt, !.json_schema = js,
                                     !.json_schema_name = jn, !.stop = st,
                                     !.toolChoice = tc]
             /\ IF SchemaNameMissing(js, jn)
                THEN /\ requestData' = base
                     /\ error' = Wrapped("Falta el campo requerido: json_schema_name")
                     /\ thrown' = NewError(error')
                     /\ spc' = "failed"
                ELSE /\ requestData' =
                          [base EXCEPT
                             !.response_format = ResponseFormat(js, jn),
                             !.tools = IF attach THEN data.tools ELSE Absent,
                             !.tool_choice = IF attach THEN tc ELSE Absent,
                             !.stop = IF Truthy(st) THEN st ELSE Absent]
                     /\ spc' = "post"
                     /\ UNCHANGED <<error, thrown>>
    /\ UNCHANGED <<adjVars, otherVars, env, modelInfo, posts, cause>>

\* the errors axios.post rejects with: an HTTP error carries the response
\* (status and body), a network error carries none
PostFailures ==
    {[message  |-> "Request failed with status code 500",
      response |-> [status |-> 500, data |-> "internal error"]],
     [message  |-> "Request failed with status code 429",
      response |-> [status |-> 429, data |-> "rate limit exceeded"]],
     [message  |-> "Network Error", response |-> Absent]}

\* most provider calls one invocation is followed for
MaxPosts == 3

\* the provider call of line 335
PostCall ==
    [url    |-> solveProviderUrl(modelInfo.provider),
     body   |-> requestData,
     auth   |-> modelInfo.authToken,
     stream |-> data.stream]

\* a sendMessage that posts again after a failed provider call
SendPostRetrying ==
    /\ spc = "post"
    /\ Len(posts) < MaxPosts
    /\ posts' = Append(posts, PostCall)
    /\ \/ /\ spc' = "returned"
          /\ UNCHANGED <<error, thrown, cause>>
       \/ /\ \E failure \in PostFailures : cause' = failure
          /\ UNCHANGED <<spc, error, thrown>>
    /\ UNCHANGED <<adjVars, otherVars, data, env, modelInfo, requestData>>

\* lines 326-347: the one axios.post; a failure lands in the catch block, which
\* logs the response body and throws a new Error with the cause message
SendPost ==
    /\ spc = "post"
    /\ posts' = Append(posts, PostCall)
    /\ \/ /\ spc' = "returned"
          /\ UNCHANGED <<error, thrown, cause>>
       \/ /\ \E failure \in PostFailures :
               /\ cause' = failure
               /\ error' = Wrapped(failure.message)
               /\ thrown' = NewError(Wrapped(failure.message))
          /\ spc' = "failed"
    /\ UNCHANGED <<adjVars, otherVars, data, env, modelInfo, requestData>>

ModelChoices ==
    {Undef, Str(""), Str("gpt-4o-2024-08-06"), Str("gpt-small"), Str("sonar"),
     Str("llama"), Str("shared"), Str("zero"), Str("unknown-model")}
SendSystemChoices == {Undef, Txt(Text(60))}
SendPromptChoices == {Undef, Txt(Text(0)), Txt(Text(30)), Txt(Text(70))}
ToolsChoices      == {Undef, Txt(Text(2))} \cup {Arr(ToolsList(n)) : n \in 0..MaxTools}
EnvChoices        == {EnvKeys, EnvKeys \ {"OPENAI_API_KEY"}}

SendInit ==
    /\ data \in [model            : ModelChoices,
                 system           : SendSystemChoices,
                 prompt           : SendPromptChoices,
                 stream           : BOOLEAN,
                 tools            : ToolsChoices,
                 max_tokens       : {Unread},
                 json_schema      : {Unread},
                 json_schema_name : {Unread},
                 stop             : {Unread},
                 toolChoice       : {Unread}]
    /\ history \in {HistoryOf(0), HistoryOf(MaxHist), HistoryOf(LongHist)}  \* data.history, default []
    /\ env \in EnvChoices
    /\ est = "ratio"
    /\ spc = "validate"
    /\ modelInfo = NoModel
    /\ requestData = NoRequest
    /\ posts = << >>
    /\ error = ""
    /\ thrown = NoError
    /\ cause = NoError
    /\ system = << >>
    /\ prompt = << >>
    /\ contextWindow = 0
    /\ reservedTokens = 0
    /\ input = [system |-> << >>, history |-> history, prompt |-> << >>]
    /\ pc = "idle"
    /\ calls = 0
    /\ trims = 0
    /\ iteration = 0
    /\ exitedBy = "none"
    /\ targetTokens = 0
    /\ currentTokens = 0
    /\ enteredFitting = FALSE
    /\ prevFit = FALSE
    /\ NearIdle
    /\ StoreIdle

SendNext ==
    \/ SendValidate
    \/ SendResolve
    \/ SendBudget
    \/ Enter
    \/ ExitFit
    \/ ExitCeiling
    \/ DropHistory
    \/ TrimSystem
    \/ TrimPrompt
    \/ ExitExhausted
    \/ SendAssemble
    \/ SendPost

SendSpec == SendInit /\ [][SendNext]_vars

----------------------------------------------------------------------------
(* Claims about adjustContent *)

\* the content can not be trimmed further
Exhausted ==
    /\ Len(history) <= 1
    /\ Len(system) <= MinChars
    /\ Len(prompt) <= MinChars

\* history is what is left of the input history after dropping k front entries
IsSuffixAfter(k) ==
    /\ k \in 0..Len(input.history)
    /\ history = SubSeq(input.history, k + 1, Len(input.history))

\* an iteration of the loop that does not leave the loop
IterationStays == pc = "loop" /\ pc' = "loop" /\ iteration' = iteration + 1

\* C1: adjustContent terminates for every input and every estimator: a call
\* applies at most 100 trimming actions (the loop body is entered at most 101
\* times), every started call reaches its return, and it returns because
\* currentTokens <= targetTokens, because nothing can be trimmed further, or
\* because the 100-iteration ceiling was passed.
C1_Terminates ==
    /\ [](trims <= maxIterations /\ iteration <= maxIterations + 1)
    /\ [](pc = "done" =>
            \/ currentTokens <= targetTokens
            \/ Exhausted
            \/ iteration > maxIterations)
    /\ (pc \in {"start", "loop"}) ~> (pc = "done")

\* C1 witness: a call that ended on the ceiling after exactly 100 trimming actions
C1_Witness ==
    /\ pc = "done"
    /\ exitedBy = "ceiling"
    /\ trims = maxIterations
    /\ currentTokens > targetTokens
    /\ ~Exhausted

\* C2: floor invariant: in every state of a call and in its result, system and
\* prompt are at least min(50, input length) characters long, and a system or
\* prompt that starts at 50 characters or fewer is never changed.
C2_Floor ==
    /\ Len(system) >= Min(MinChars, Len(input.system))
    /\ Len(prompt) >= Min(MinChars, Len(input.prompt))
    /\ (Len(input.system) <= MinChars => system = input.system)
    /\ (Len(input.prompt) <= MinChars => prompt = input.prompt)

\* C2 witness: both texts were trimmed down to the floor and the content is
\* still over budget
C2_Witness ==
    /\ pc = "done"
    /\ Len(input.system) > MinChars /\ Len(system) = MinChars
    /\ Len(input.prompt) > MinChars /\ Len(prompt) = MinChars
    /\ currentTokens > targetTokens

\* what the priority order allows one step of the loop to change
C3_PriorityStep ==
    /\ (pc = "loop" /\ Len(history) > 1) =>
          /\ system' = system
          /\ prompt' = prompt
          /\ history' \in {history, Tail(history)}
    /\ (pc = "loop" /\ system' # system) => Len(history) <= 1
    /\ (pc = "loop" /\ prompt' # prompt) =>
          (Len(history) <= 1 /\ Len(system) <= MinChars)

\* C3: strict priority order: an iteration that starts with more than one
\* history entry changes nothing but the front of history; system is shortened
\* only when history has at most 1 entry; prompt only when moreover system has
\* at most 50 characters.  So a returned prompt that differs from the input
\* comes with a system of at most 50 characters and at most 1 history entry.
C3_Priority ==
    /\ [][C3_PriorityStep]_vars
    /\ [](prompt # input.prompt => (Len(system) <= MinChars /\ Len(history) <= 1))

\* C3 witness: a call that went through all three stages
C3_Witness ==
    /\ pc = "done"
    /\ Len(history) < Len(input.history)
    /\ system # input.system
    /\ prompt # input.prompt

\* C4: the history is always a contiguous suffix of the input history, at most
\* one front entry shorter per iteration; a non-empty input history stays
\* non-empty and keeps its most recent entry.
C4_HistorySuffix ==
    /\ \E k \in 0..Len(input.history) : IsSuffixAfter(k) /\ k <= iteration
    /\ input.history # << >> =>
          /\ history # << >>
          /\ history[Len(history)] = input.history[Len(input.history)]

\* C4 witness: a history of three or more entries was cut down to its last entry
C4_Witness ==
    /\ pc = "done"
    /\ Len(input.history) >= 3
    /\ history = << input.history[Len(input.history)] >>

\* C5: a call entered with estimate <= contextWindow - reservedTokens runs zero
\* iterations and returns its input; so does a call on the result of a call
\* that ended with currentTokens <= targetTokens.
C5_Idempotent ==
    (pc = "done" /\ (enteredFitting \/ prevFit)) =>
        /\ iteration = 0
        /\ trims = 0
        /\ system = input.system
        /\ history = input.history
        /\ prompt = input.prompt

\* C5 witness: the second call, on a result that fitted, with content that
\* could still be trimmed
C5_Witness ==
    /\ pc = "done"
    /\ calls = 2
    /\ prevFit
    /\ enteredFitting
    /\ ~Exhausted

\* the call of the overflow scenario: system and prompt of at most 50
\* characters, content over budget on entry
OverflowCall ==
    /\ pc \in {"loop", "done"}
    /\ Len(input.system) <= MinChars
    /\ Len(input.prompt) <= MinChars
    /\ ~enteredFitting

\* C6 as stated: such a call leaves system and prompt alone, and stops only
\* when history.length = 1 or currentTokens <= targetTokens.
C6_Original ==
    (OverflowCall /\ pc = "done") =>
        /\ system = input.system
        /\ prompt = input.prompt
        /\ (Len(history) = 1 \/ currentTokens <= targetTokens)

\* C6 amended: such a call removes history entries one by one from the front,
\* leaves system and prompt alone, and stops only when history has at most one
\* entry, or currentTokens <= targetTokens, or 100 entries have been removed.
C6_Overflow ==
    OverflowCall =>
        /\ system = input.system
        /\ prompt = input.prompt
        /\ IsSuffixAfter(trims)
        /\ pc = "done" =>
              \/ Len(history) <= 1
              \/ currentTokens <= targetTokens
              \/ trims = maxIterations

\* C6 witness: the overflow call stopped by the ceiling with several history
\* entries left and the content still over budget
C6_Witness ==
    /\ OverflowCall
    /\ pc = "done"
    /\ Len(history) > 1
    /\ currentTokens > targetTokens
    /\ trims = maxIterations

\* C7 as stated: with a monotone estimator, every iteration that does not leave
\* the loop strictly decreases currentTokens.
C7_Original ==
    [][(est \in MonotoneEstimators /\ IterationStays)
          => currentTokens' < currentTokens]_vars

\* C7 amended: with a monotone estimator, every iteration that does not leave
\* the loop leaves currentTokens no larger than it was.
C7_NonIncreasing ==
    [][(est \in MonotoneEstimators /\ IterationStays)
          => currentTokens' <= currentTokens]_vars

\* C7 witness: after one trimming action under the ratio estimator the estimate
\* is what it was on entry
C7_Witness ==
    /\ pc = "loop"
    /\ est = "ratio"
    /\ trims = 1
    /\ system # input.system
    /\ currentTokens = estimateTokens(est, Messages(input.system, input.history, input.prompt))

----------------------------------------------------------------------------
(* Claims about sendMessage *)

\* adjustContent has been called by this sendMessage
Budgeted == spc \in {"budgeting", "post", "returned", "failed"} /\ calls = 1

\* requestData has been built (the fields of data read in assembly are known)
Assembled == requestData # NoRequest

\* C8: the reservedTokens passed to adjustContent and subtracted in the
\* max_tokens computation is 150 * N for a list of N >= 1 tools, and 0 when
\* tools is absent, empty or not a list.
C8_Reserved ==
    LET n == IF data.tools.t = "array" THEN Len(data.tools.v) ELSE 0
        expected == IF n >= 1 THEN 150 * n ELSE 0
    IN  /\ Budgeted => reservedTokens = expected
        /\ (Budgeted /\ pc \in {"loop", "done"}) =>
              targetTokens = modelInfo.contextWindow - expected
        /\ (Assembled /\ ~Truthy(data.max_tokens)) =>
              requestData.max_tokens =
                 Num(modelInfo.contextWindow
                       - estimateTokens(est, requestData.messages) - expected)

\* C8 witness: a request with two declared tools and a computed max_tokens was sent
C8_Witness ==
    /\ spc = "returned"
    /\ data.tools = Arr(ToolsList(2))
    /\ reservedTokens = 300
    /\ data.max_tokens = Undef

\* C9 as stated: the request carries every caller-supplied max_tokens exactly,
\* and contextWindow - estimate(messages) - reservedTokens, unclamped, when the
\* caller supplies none.
C9_Original ==
    Assembled =>
        IF data.max_tokens # Undef
        THEN requestData.max_tokens = data.max_tokens
        ELSE requestData.max_tokens =
                Num(contextWindow - estimateTokens(est, requestData.messages)
                      - reservedTokens)

\* C10: a json_schema without json_schema_name makes the call fail with the
\* missing-name error and no provider call; with both, every request sent
\* carries the strict json_schema response_format; with no schema it carries
\* no response_format.
C10_SchemaPairing ==
    LET expected ==
            IF Truthy(data.json_schema)
            THEN [type |-> "json_schema",
                  json_schema |-> [name   |-> data.json_schema_name,
                                   schema |-> data.json_schema,
                                   strict |-> TRUE]]
            ELSE Absent
    IN  /\ (Assembled /\ Truthy(data.json_schema) /\ ~Truthy(data.json_schema_name)) =>
              /\ spc = "failed"
              /\ error = "Error procesando la solicitud: Falta el campo requerido: json_schema_name"
              /\ posts = << >>
        /\ spc \in {"post", "returned"} => requestData.response_format = expected
        /\ \A i \in 1..Len(posts) : posts[i].body.response_format = expected

\* C10 witness: a call with a schema and no name has failed after budgeting
C10_Witness ==
    /\ spc = "failed"
    /\ Assembled
    /\ Truthy(data.json_schema)
    /\ ~Truthy(data.json_schema_name)
    /\ posts = << >>

\* a request has been handed to the provider call, or is about to be
RequestReady == spc \in {"post", "returned"} \/ posts # << >>

\* C11: the request carries tools and tool_choice if and only if tools is a
\* non-empty list, the resolved provider is openai and stream is false; in
\* every other case both fields are omitted and assembly raises no error (the
\* only error of assembly is the missing schema name).
C11_ToolAttachment ==
    LET wanted == /\ data.tools.t = "array"
                  /\ Len(data.tools.v) >= 1
                  /\ modelInfo.provider = "openai"
                  /\ data.stream = FALSE
    IN  /\ RequestReady =>
              IF wanted
              THEN /\ requestData.tools = data.tools
                   /\ requestData.tool_choice = data.toolChoice
              ELSE /\ requestData.tools = Absent
                   /\ requestData.tool_choice = Absent
        /\ (Assembled /\ spc = "failed" /\ posts = << >>) =>
              (Truthy(data.json_schema) /\ ~Truthy(data.json_schema_name))

\* C11 witness: two tools declared for a perplexity model, and the request
\* went out without them
C11_Witness ==
    /\ spc = "returned"
    /\ data.tools = Arr(ToolsList(2))
    /\ modelInfo.provider = "perplexity"
    /\ requestData.tools = Absent
    /\ requestData.tool_choice = Absent

\* C12: with model or prompt missing, sendMessage rejects before resolving the
\* model, before adjustContent and before any provider call; the error names
\* 'model' whenever model is missing and 'prompt' otherwise.
C12_ValidationFirst ==
    (spc # "validate" /\ (~Truthy(data.model) \/ ~Truthy(data.prompt))) =>
        /\ spc = "failed"
        /\ modelInfo = NoModel
        /\ calls = 0
        /\ pc = "idle"
        /\ posts = << >>
        /\ error = IF ~Truthy(data.model)
                   THEN "Faltan campos requeridos: model"
                   ELSE "Faltan campos requeridos: prompt"

\* C12 witness: model and prompt both missing, the error names model
C12_Witness ==
    /\ spc = "failed"
    /\ ~Truthy(data.model)
    /\ ~Truthy(data.prompt)
    /\ error = "Faltan campos requeridos: model"

\* the names of a catalog
CatalogNames(models) == {models[i].name : i \in 1..Len(models)}

\* C13: a name in none of the three catalogs fails with the model-not-found
\* error, a name found whose provider's API key is not set fails with the
\* missing-auth-token error; in both cases adjustContent is not run and no
\* provider call is made.
C13_ResolutionErrors ==
    (spc \notin {"validate", "resolve"} /\ Truthy(data.model) /\ Truthy(data.prompt)) =>
        LET name == data.model.v
            provider == IF name \in CatalogNames(openAIModels) THEN "openai"
                        ELSE IF name \in CatalogNames(perplexityModels) THEN "perplexity"
                        ELSE "groq"
            key == IF provider = "openai" THEN "OPENAI_API_KEY"
                   ELSE IF provider = "perplexity" THEN "PERPLEXITY_API_KEY"
                   ELSE "GROQ_API_KEY"
            known == name \in CatalogNames(openAIModels)
                               \cup CatalogNames(perplexityModels)
                               \cup CatalogNames(groqModels)
        IN  /\ ~known =>
                  /\ spc = "failed"
                  /\ error = "Error procesando la solicitud: Model info not found for " \o name
                  /\ calls = 0
                  /\ posts = << >>
            /\ (known /\ key \notin env) =>
                  /\ spc = "failed"
                  /\ error = "Error procesando la solicitud: Auth token not found for provider: "
                                \o provider
                  /\ calls = 0
                  /\ posts = << >>

\* C13 witness: an openai model with no OPENAI_API_KEY set has failed before budgeting
C13_Witness ==
    /\ spc = "failed"
    /\ error = "Error procesando la solicitud: Auth token not found for provider: openai"
    /\ calls = 0
    /\ posts = << >>

\* C14: an invocation makes at most one provider call, and only after budgeting
\* and assembly are complete; when the call fails the invocation ends with the
\* wrapped cause message and no second call.
C14_NoRetry ==
    /\ Len(posts) <= 1
    /\ posts # << >> =>
          /\ calls = 1
          /\ pc = "done"
          /\ Assembled
          /\ posts[1].body = requestData
    /\ cause # NoError =>
          /\ spc = "failed"
          /\ Len(posts) = 1
          /\ error = "Error procesando la solicitud: " \o cause.message

\* C14 witness: the one provider call failed and the invocation has ended
C14_Witness ==
    /\ spc = "failed"
    /\ cause # NoError
    /\ Len(posts) = 1

\* C15 as stated: when the provider call fails with an HTTP response, the error
\* surfaced to the caller carries that response (status code and body).
C15_Original ==
    (spc = "failed" /\ cause # NoError /\ cause.response # Absent) =>
        /\ "response" \in DOMAIN thrown
        /\ thrown.response = cause.response

\* the array the caller supplied as data.history: adjustContent receives a
\* reference to it and shifts it in place
CallerHistory == history

\* C16 as stated: when a sendMessage call has ended, the caller's history holds
\* the entries it had before the call.
C16_Original ==
    spc \in {"returned", "failed"} => CallerHistory = input.history

\* C17: on return of adjustContent the estimate of the returned content is at
\* most contextWindow - reservedTokens, or the content is exhausted, or exactly
\* 100 trimming actions were applied.
C17_ExitPostcondition ==
    pc = "done" =>
        \/ estimateTokens(est, Messages(system, history, prompt))
              <= contextWindow - reservedTokens
        \/ (Len(history) <= 1 /\ Len(system) <= 50 /\ Len(prompt) <= 50)
        \/ trims = 100

\* C17 witness: a call that trimmed, ran out of things to trim and returned
\* content that is still over budget
C17_Witness ==
    /\ pc = "done"
    /\ exitedBy = "exhausted"
    /\ trims > 0
    /\ estimateTokens(est, Messages(system, history, prompt))
          > contextWindow - reservedTokens

\* what one step of the loop may change
C18_Step ==
    /\ IterationStays =>
          \/ (history' # history /\ system' = system /\ prompt' = prompt)
          \/ (history' = history /\ system' # system /\ prompt' = prompt)
          \/ (history' = history /\ system' = system /\ prompt' # prompt)
    /\ pc = "loop" =>
          /\ contextWindow' = contextWindow
          /\ reservedTokens' = reservedTokens
          /\ targetTokens' = targetTokens

\* C18: every iteration that does not leave the loop changes exactly one of
\* history, system and prompt; contextWindow, reservedTokens and targetTokens
\* are never changed by the loop.
C18_OneAction == [][C18_Step]_vars

\* C18 witness: after the first iteration only system differs from the input
C18_Witness ==
    /\ pc = "loop"
    /\ iteration = 1
    /\ system # input.system
    /\ history = input.history
    /\ prompt = input.prompt

\* min(4 * ceil((currentTokens - targetTokens) / 2), len - 50)
Quantum(len) ==
    LET over == currentTokens - targetTokens
        half == IF over % 2 = 0 THEN over \div 2 ELSE (over \div 2) + 1
    IN  IF 4 * half <= len - 50 THEN 4 * half ELSE len - 50

C19_Step ==
    /\ (pc = "loop" /\ system' # system) =>
          system' = SubSeq(system, 1, Len(system) - Quantum(Len(system)))
    /\ (pc = "loop" /\ prompt' # prompt) =>
          prompt' = SubSeq(prompt, 1, Len(prompt) - Quantum(Len(prompt)))

\* C19: an iteration that shortens system (or prompt) removes from its end
\* min(4 * ceil((currentTokens - targetTokens) / 2), len - 50) characters,
\* with currentTokens and len taken at the start of the iteration.
C19_TrimQuantum == [][C19_Step]_vars

\* C19 witness: system was shortened by the quantum and is still above the floor
C19_Witness ==
    /\ pc = "loop"
    /\ iteration = 1
    /\ system # input.system
    /\ Len(system) > 50

\* the content is trimmed as far as trimming can go
MaximallyTrimmed ==
    /\ Len(history) <= 1
    /\ Len(system) = Min(50, Len(input.system))
    /\ Len(prompt) = Min(50, Len(input.prompt))

\* C20 as stated: with reservedTokens above contextWindow adjustContent returns
\* maximally trimmed content.
C20_Original ==
    (pc = "done" /\ reservedTokens > contextWindow) => MaximallyTrimmed

\* C20 amended: with reservedTokens above contextWindow (and an estimate that
\* is never negative) adjustContent returns maximally trimmed content, unless
\* the iteration ceiling stops it first, after exactly 100 trimming actions.
C20_NegativeBudget ==
    (pc = "done" /\ reservedTokens > contextWindow) =>
        (MaximallyTrimmed \/ (exitedBy = "ceiling" /\ trims = maxIterations))

\* C20 witness: a negative budget, and history, system and prompt all cut down
C20_Witness ==
    /\ pc = "done"
    /\ targetTokens < 0
    /\ MaximallyTrimmed
    /\ Len(history) < Len(input.history)
    /\ system # input.system
    /\ prompt # input.prompt

\* C21: the messages of the request are the budgeted system as a system
\* message, then the budgeted history in conversation order, then the budgeted
\* prompt as a user message; the estimate behind the computed max_tokens is the
\* estimate of that sequence, the one adjustContent computed last.
C21_MessageAssembly ==
    Assembled =>
        LET m == requestData.messages
        IN  /\ pc = "done"
            /\ Len(m) = Len(history) + 2
            /\ m[1] = [role |-> "system", content |-> system]
            /\ \A i \in 1..Len(history) : m[i + 1] = history[i]
            /\ m[Len(m)] = [role |-> "user", content |-> prompt]
            /\ \E k \in 0..Len(input.history) :
                  /\ Len(history) = Len(input.history) - k
                  /\ \A i \in 1..Len(history) : history[i] = input.history[i + k]
            /\ estimateTokens(est, m) = currentTokens
            /\ ~Truthy(data.max_tokens) =>
                  requestData.max_tokens.v = contextWindow - currentTokens - reservedTokens

\* C21 witness: a request was sent after history entries were dropped and both
\* texts were trimmed
C21_Witness ==
    /\ spc = "returned"
    /\ Len(history) = 1
    /\ Len(input.history) = MaxHist
    /\ system # input.system
    /\ prompt # input.prompt
    /\ Len(requestData.messages) = 3

\* x is what is left of y after removing characters from its end
IsPrefix(x, y) == Len(x) <= Len(y) /\ x = SubSeq(y, 1, Len(x))

C22_Step ==
    /\ (pc = "loop" /\ system' # system) =>
          /\ Quantum(Len(system)) >= 1
          /\ Len(system') >= 1
          /\ Len(system') < Len(system)
    /\ (pc = "loop" /\ prompt' # prompt) =>
          /\ Quantum(Len(prompt)) >= 1
          /\ Len(prompt') >= 1
          /\ Len(prompt') < Len(prompt)
    /\ IsPrefix(system', input'.system)
    /\ IsPrefix(prompt', input'.prompt)
    /\ (input'.system # << >>) => (system' # << >>)
    /\ (input'.prompt # << >>) => (prompt' # << >>)

\* C22: in the system-trim and prompt-trim branches trimLength is at least 1,
\* so slice never runs with 0 and never empties a text; system and prompt are
\* always prefixes of the inputs.
C22_NoEmptySlice == [][C22_Step]_vars

\* C22 witness: the smallest trim there is, trimLength = 1, has taken a system
\* of 51 characters to 50, and the prompt has been shortened after it
C22_Witness ==
    /\ pc = "loop"
    /\ Len(input.system) = 51
    /\ Len(system) = 50
    /\ prompt # input.prompt
    /\ Len(prompt) >= 50

\* C23: when adjustContent ended because currentTokens <= targetTokens, the
\* request respects the context window, estimate(messages) + reservedTokens <=
\* contextWindow, and the computed max_tokens is >= 0; a negative computed
\* max_tokens occurs only after exhaustion or the iteration ceiling.
C23_WindowRespected ==
    Assembled =>
        LET used == estimateTokens(est, requestData.messages) + reservedTokens
        IN  /\ exitedBy = "fit" =>
                  /\ used <= modelInfo.contextWindow
                  /\ ~Truthy(data.max_tokens) => requestData.max_tokens.v >= 0
            /\ (~Truthy(data.max_tokens) /\ requestData.max_tokens.v < 0) =>
                  /\ exitedBy \in {"exhausted", "ceiling"}
                  /\ \/ (Len(history) <= 1 /\ Len(system) <= 50 /\ Len(prompt) <= 50)
                     \/ trims = 100

\* C23 witness: a budgeted request that fits after trimming, with a computed
\* max_tokens
C23_Witness ==
    /\ spc = "returned"
    /\ exitedBy = "fit"
    /\ trims > 0
    /\ data.max_tokens = Undef
    /\ requestData.max_tokens.v >= 0

\* C24: for a list of N >= 1 tools with stream = true or a perplexity or groq
\* model the request carries no tools, yet the budgeting target and the
\* computed max_tokens are reduced by 150 * N.
C24_ReservedWithoutTools ==
    (/\ data.tools.t = "array"
     /\ Len(data.tools.v) >= 1
     /\ modelInfo # NoModel
     /\ (data.stream \/ modelInfo.provider \in {"perplexity", "groq"})) =>
        LET n == Len(data.tools.v)
        IN  /\ RequestReady =>
                  /\ requestData.tools = Absent
                  /\ requestData.tool_choice = Absent
            /\ (calls = 1 /\ pc \in {"loop", "done"}) =>
                  targetTokens = modelInfo.contextWindow - 150 * n
            /\ (Assembled /\ ~Truthy(data.max_tokens)) =>
                  requestData.max_tokens.v =
                     modelInfo.contextWindow
                        - estimateTokens(est, requestData.messages) - 150 * n

\* C24 witness: a streaming openai request with two declared tools went out
\* without them and with 300 tokens deducted
C24_Witness ==
    /\ spc = "returned"
    /\ data.stream
    /\ modelInfo.provider = "openai"
    /\ data.tools = Arr(ToolsList(2))
    /\ requestData.tools = Absent
    /\ targetTokens = modelInfo.contextWindow - 300
    /\ data.max_tokens = Undef

\* the first entry of a catalog with the given name
FirstEntry(models, name) ==
    models[CHOOSE i \in 1..Len(models) :
             /\ models[i].name = name
             /\ \A j \in 1..(i - 1) : models[j].name # name]

\* C25: provider, auth token and contextWindow of a resolved model all come
\* from the first catalog holding the name, in the order openai, perplexity,
\* groq; the 'Provider not found' error never occurs; an entry with no or a
\* zero contextWindow resolves to 4096.
C25_ResolveConsistent ==
    /\ modelInfo # NoModel =>
          LET name == data.model.v
              cat == IF name \in CatalogNames(openAIModels) THEN "openai"
                     ELSE IF name \in CatalogNames(perplexityModels) THEN "perplexity"
                     ELSE "groq"
              entry == IF cat = "openai" THEN FirstEntry(openAIModels, name)
                       ELSE IF cat = "perplexity" THEN FirstEntry(perplexityModels, name)
                       ELSE FirstEntry(groqModels, name)
              token == IF cat = "openai" THEN "OPENAI_API_KEY"
                       ELSE IF cat = "perplexity" THEN "PERPLEXITY_API_KEY"
                       ELSE "GROQ_API_KEY"
          IN  /\ modelInfo.name = name
              /\ modelInfo.provider = cat
              /\ modelInfo.authToken = token
              /\ modelInfo.contextWindow =
                    IF entry.contextWindow.t = "number" /\ entry.contextWindow.v # 0
                    THEN entry.contextWindow.v
                    ELSE 4096
    /\ (spc = "failed" /\ Truthy(data.model)) =>
          error # "Error procesando la solicitud: Provider not found for model: "
                     \o data.model.v

\* C25 witness: the name listed by perplexity and by groq resolved to
\* perplexity with perplexity's window
C25_Witness ==
    /\ modelInfo # NoModel
    /\ data.model = Str("shared")
    /\ modelInfo.provider = "perplexity"
    /\ modelInfo.contextWindow = 60

\* C25 second case: an entry whose contextWindow is 0 resolved to the default
C25_ZeroWindow ==
    /\ modelInfo # NoModel
    /\ data.model = Str("zero")
    /\ modelInfo.contextWindow = 4096

----------------------------------------------------------------------------
(* NearService (src/services/near.service.js): the lazily initialised static  *)
(* connection, createBountyTransaction with _createEncodedTransaction,        *)
(* broadcastTransaction and a view call, run by requests in flight together.  *)
(* An await is a point where another request may run: every action below is   *)
(* the code between two awaits.                                               *)

MaxProcs == 2
MaxOps   == 3

Procs    == 1..MaxProcs
Networks == {"testnet", "mainnet"}
Accounts == {"alice.near", "bob.near"}

AccessKey(pk, n) == [public_key |-> pk, nonce |-> n]

\* the access keys of the accounts on each network before any broadcast
InitialLedger ==
    [net \in Networks |->
       [a \in Accounts |->
          IF a = "alice.near"
          THEN IF net = "testnet"
               THEN << AccessKey("ed25519:A1", 5), AccessKey("ed25519:A2", 9) >>
               ELSE << AccessKey("ed25519:A2", 3), AccessKey("ed25519:A1", 7) >>
          ELSE << >>]]

\* decimal digits, as characters
Digits == << "0", "1", "2", "3", "4", "5", "6", "7", "8", "9" >>
IsDigit(c) == \E i \in 1..10 : Digits[i] = c
DigitValue(c) == (CHOOSE i \in 1..10 : Digits[i] = c) - 1

RECURSIVE DecimalValue(_)
DecimalValue(s) ==
    IF s = << >> THEN 0
    ELSE 10 * DecimalValue(SubSeq(s, 1, Len(s) - 1)) + DigitValue(s[Len(s)])

\* BigInt(prize) of a string: the empty string is 0n, a string of decimal
\* digits is its number, any other string of the alphabet used here (digits,
\* '.', letters) throws a SyntaxError
BigInt(s) ==
    IF \A i \in 1..Len(s) : IsDigit(s[i])
    THEN [ok |-> TRUE, v |-> DecimalValue(s)]
    ELSE [ok |-> FALSE, v |-> 0]

\* let totalPrize = BigInt(0); for (let prize of prizes) totalPrize += BigInt(prize)
RECURSIVE TotalPrize(_, _, _)
TotalPrize(prizes, i, acc) ==
    IF i > Len(prizes) THEN [ok |-> TRUE, v |-> acc]
    ELSE IF ~BigInt(prizes[i]).ok THEN [ok |-> FALSE, v |-> 0]
    ELSE TotalPrize(prizes, i + 1, acc + BigInt(prizes[i]).v)

\* totalPrize.toString()
RECURSIVE BigIntToString(_)
BigIntToString(n) ==
    IF n < 10 THEN << Digits[n + 1] >>
    ELSE BigIntToString(n \div 10) \o << Digits[(n % 10) + 1] >>

\* JSON.stringify({ prizes }) for a list of strings, as its characters (the
\* punctuation and the key are one token each)
RECURSIVE JsonItems(_, _)
JsonItems(list, i) ==
    IF i > Len(list) THEN << >>
    ELSE (IF i > 1 THEN << "," >> ELSE << >>)
            \o << "\"" >> \o list[i] \o << "\"" >> \o JsonItems(list, i + 1)
JsonStringify(prizes) ==
    << "{", "\"prizes\"", ":", "[" >> \o JsonItems(prizes, 1) \o << "]", "}" >>

\* transactions.functionCall(methodName, args, gas, deposit)
FunctionCall(methodName, args, gas, deposit) ==
    [methodName |-> methodName, args |-> args, gas |-> gas, deposit |-> deposit]

\* the lists of prizes the requests carry; a prize is a string of characters
PrizesChoices ==
    { << << "9", "9" >>, << "1", "2" >> >>,
      << << "1" >>, << "0", ".", "5" >> >>,
      << << "1", "2" >>, << >> >>,
      << << "1", "a" >> >> }

\* what the callers of the service ask for: the operations they call and the
\* lists of prizes they pass
AllCallers ==
    [kinds |-> {"createBounty", "broadcast", "view"}, prizes |-> PrizesChoices]

\* callers that only build and broadcast bounty transactions, with well-formed
\* prizes
BountyCallers ==
    [kinds |-> {"createBounty", "broadcast"},
     prizes |-> { << << "9", "9" >>, << "1", "2" >> >> }]

\* index of the access key with the given public key, 0 if there is none
KeyIndex(keys, pk) ==
    IF \E i \in 1..Len(keys) : keys[i].public_key = pk
    THEN CHOOSE i \in 1..Len(keys) : keys[i].public_key = pk
    ELSE 0

\* the locals of an operation are gone when it has returned or thrown; of a
\* throw the message stays, in the response of the request
Returned == IdleOp
Thrown(message) == [IdleOp EXCEPT !.pos = "failed", !.error = message]

\* createBountyTransaction lines 505-522: the total of the prizes and the
\* create_bounty action; BigInt throws outside any try
CreateBountyActions(total) ==
    << FunctionCall("create_bounty", JsonStringify(total.prizes), "300000000000000",
                    BigIntToString(total.v)) >>

\* what an operation does once `await _initConnection(networkId)` is over, up
\* to its next await, with conn the value of the static field:
\*   createBountyTransaction (505-522, 356, 74): the actions, then the account
\*     of the sender is taken from conn and its access keys are asked for;
\*   broadcastTransaction (462-469): the provider of conn is taken and
\*     broadcast_tx_commit is sent;
\*   getAllBounties (674-676): the account of conn is taken and the view
\*     function is called.
Continue(p, op, conn, callers) ==
    \/ /\ op.kind = "createBounty"
       /\ \E prizes \in callers.prizes, sender \in Accounts :
             LET sum   == TotalPrize(prizes, 1, 0)
                 total == [prizes |-> prizes, v |-> sum.v]
             IN  IF sum.ok
                 THEN ops' = [ops EXCEPT ![p] =
                                 [op EXCEPT !.prizes = prizes,
                                            !.sender = sender,
                                            !.actions = CreateBountyActions(total),
                                            !.used = Append(@, conn),
                                            !.pos = "listing"]]
                 ELSE ops' = [ops EXCEPT ![p] = Thrown("Cannot convert prize to a BigInt")]
    \/ /\ op.kind = "broadcast"
       /\ ops' = [ops EXCEPT ![p] = [op EXCEPT !.used = Append(@, conn), !.pos = "sending"]]
    \/ /\ op.kind = "view"
       /\ ops' = [ops EXCEPT ![p] = [op EXCEPT !.used = Append(@, conn), !.pos = "viewing"]]

\* an operation is called: createBountyTransaction (494-503),
\* broadcastTransaction (445-460, both parameters given; it carries a
\* transaction built earlier and signed outside) or getAllBounties (665-672).
\* _initConnection runs to its await: the static field is tested and, when it
\* is null, connect(config) is called with this operation's networkId (33-45);
\* when it is set the operation goes on at once.
NearStart(p, callers) ==
    /\ ops[p].pos \in {"idle", "failed"}
    /\ started < MaxOps
    /\ started' = started + 1
    /\ \E kind \in callers.kinds, net \in Networks :
          /\ kind = "broadcast" => built # << >>
          /\ \E tgt \in (IF kind = "broadcast" THEN 1..Len(built) ELSE {0}) :
                LET op == [IdleOp EXCEPT !.kind = kind, !.networkId = net, !.target = tgt]
                IN  IF nearConnection = Null
                    THEN /\ connects' = connects + 1
                         /\ ops' = [ops EXCEPT ![p] =
                                       [op EXCEPT !.pos = "connecting",
                                                  !.pending = connects + 1]]
                    ELSE /\ Continue(p, op, nearConnection, callers)
                         /\ UNCHANGED connects
    /\ UNCHANGED <<nearConnection, ledger, ledgerLog, built, aiVars, storeVars>>

\* line 45: connect resolved, the static field is assigned, _initConnection
\* returns and the operation goes on
NearConnected(p, callers) ==
    /\ ops[p].pos = "connecting"
    /\ nearConnection' = [id |-> ops[p].pending, networkId |-> ops[p].networkId]
    /\ Continue(p, ops[p], nearConnection', callers)
    /\ UNCHANGED <<connects, started, ledger, ledgerLog, built, aiVars, storeVars>>

\* lines 47-50: connect rejected; broadcastTransaction wraps the error again
NearConnectFailed(p) ==
    /\ ops[p].pos = "connecting"
    /\ ops' = [ops EXCEPT ![p] =
                 Thrown(IF ops[p].kind = "broadcast"
                        THEN "Failed to broadcast transaction: Failed to connect to NEAR network: timeout"
                        ELSE "Failed to connect to NEAR network: timeout")]
    /\ UNCHANGED <<nearConnection, connects, started, ledger, ledgerLog, built,
                   aiVars, storeVars>>

\* _getSignerPublicKey lines 77-89 and _createEncodedTransaction lines 357-368:
\* the access keys of the sender arrive from the ledger of the account's
\* connection, the first one is taken, and the access key is asked for through
\* the provider of the static field as it is now
NearListed(p) ==
    /\ ops[p].pos = "listing"
    /\ LET accessKeys == ledger[ops[p].used[1].networkId][ops[p].sender]
       IN  IF Len(accessKeys) = 0
           THEN ops' = [ops EXCEPT ![p] = Thrown("Failed to create transaction: Failed to retrieve public key")]
           ELSE ops' = [ops EXCEPT
                          ![p].key = accessKeys[1].public_key,
                          ![p].used = Append(@, nearConnection),
                          ![p].pos = "querying"]
    /\ UNCHANGED <<nearConnection, connects, started, ledger, ledgerLog, built,
                   aiVars, storeVars>>

\* line 379
NonceStale(accessKeyNonce) == accessKeyNonce
NonceFor(accessKeyNonce) == accessKeyNonce + 1

\* _createEncodedTransaction lines 365-395: the ledger of the provider answers
\* the query with the nonce it holds now, the transaction gets nonce + 1.
\* The entries listedOn, epoch and network record where the keys were listed
\* and when and where the nonce was read.
NearQueried(p) ==
    /\ ops[p].pos = "querying"
    /\ LET net  == ops[p].used[2].networkId
           keys == ledger[net][ops[p].sender]
           k    == KeyIndex(keys, ops[p].key)
       IN  IF k = 0
           THEN /\ ops' = [ops EXCEPT ![p] = Thrown("Failed to create transaction: access key does not exist")]
                /\ UNCHANGED built
           ELSE /\ built' = Append(built,
                                   [signerId  |-> ops[p].sender,
                                    publicKey |-> ops[p].key,
                                    nonce     |-> NonceFor(keys[k].nonce),
                                    actions   |-> ops[p].actions,
                                    prizes    |-> ops[p].prizes,
                                    listedOn  |-> ops[p].used[1].networkId,
                                    epoch     |-> Len(ledgerLog),
                                    network   |-> net])
                /\ ops' = [ops EXCEPT ![p] = Returned]
    /\ UNCHANGED <<nearConnection, connects, started, ledger, ledgerLog, aiVars, storeVars>>

\* broadcastTransaction lines 466-473: the ledger of the provider takes a
\* transaction whose nonce is above the nonce of its access key and refuses
\* any other
NearApplied(p) ==
    /\ ops[p].pos = "sending"
    /\ LET tx   == built[ops[p].target]
           net  == ops[p].used[1].networkId
           keys == ledger[net][tx.signerId]
           k    == KeyIndex(keys, tx.publicKey)
       IN  IF k # 0 /\ tx.nonce > keys[k].nonce
           THEN /\ ledger' = [ledger EXCEPT ![net][tx.signerId][k].nonce = tx.nonce]
                /\ ledgerLog' = Append(ledgerLog, ledger')
                /\ ops' = [ops EXCEPT ![p] = Returned]
           ELSE /\ ops' = [ops EXCEPT ![p] = Thrown("Failed to broadcast transaction: invalid nonce or key")]
                /\ UNCHANGED <<ledger, ledgerLog>>
    /\ UNCHANGED <<nearConnection, connects, started, built, aiVars, storeVars>>

\* getAllBounties lines 676-678: the view call has answered
NearViewed(p) ==
    /\ ops[p].pos = "viewing"
    /\ ops' = [ops EXCEPT ![p] = Returned]
    /\ UNCHANGED <<nearConnection, connects, started, ledger, ledgerLog, built,
                   aiVars, storeVars>>

NearInit ==
    /\ AdjustIdle
    /\ SendIdle
    /\ StoreIdle
    /\ nearConnection = Null
    /\ connects = 0
    /\ ops = [p \in Procs |-> IdleOp]
    /\ started = 0
    /\ ledger = InitialLedger
    /\ ledgerLog = << >>
    /\ built = << >>

NearNext ==
    \/ \E p \in Procs : NearStart(p, AllCallers)
    \/ \E p \in Procs : NearConnected(p, AllCallers)
    \/ \E p \in Procs : NearConnectFailed(p)
    \/ \E p \in Procs : NearListed(p)
    \/ \E p \in Procs : NearQueried(p)
    \/ \E p \in Procs : NearApplied(p)
    \/ \E p \in Procs : NearViewed(p)

NearSpec == NearInit /\ [][NearNext]_vars

\* the service under callers that only build and broadcast bounty transactions
NonceNext ==
    \/ \E p \in Procs : NearStart(p, BountyCallers)
    \/ \E p \in Procs : NearConnected(p, BountyCallers)
    \/ \E p \in Procs : NearConnectFailed(p)
    \/ \E p \in Procs : NearListed(p)
    \/ \E p \in Procs : NearQueried(p)
    \/ \E p \in Procs : NearApplied(p)

NonceSpec == NearInit /\ [][NonceNext]_vars

\* C26 as stated: connect is invoked at most once per process and every
\* operation uses that one connection, whatever the interleaving.
C26_Original ==
    /\ connects <= 1
    /\ \A p \in Procs : \A i \in 1..Len(ops[p].used) : ops[p].used[i].id = 1

\* C27 as stated: every operation runs against a connection configured for
\* the networkId passed to it.
C27_Original ==
    \A p \in Procs : \A i \in 1..Len(ops[p].used) :
        ops[p].used[i].networkId = ops[p].networkId

\* the ledger as it was after the first e accepted broadcasts
LedgerAt(e) == IF e = 0 THEN InitialLedger ELSE ledgerLog[e]

\* the nonce a ledger holds for a public key of an account
NonceOn(ldg, net, account, pk) ==
    LET keys == ldg[net][account]
    IN  keys[CHOOSE i \in 1..Len(keys) : keys[i].public_key = pk].nonce

\* C28: a built transaction is signed for the first access key listed for the
\* sender and carries that key's nonce as the ledger held it when the build
\* read it, plus one; builds for the same sender with no broadcast between
\* their reads carry the same nonce.
C28_Nonce ==
    /\ \A i \in 1..Len(built) :
          LET tx == built[i]
          IN  /\ tx.publicKey = InitialLedger[tx.listedOn][tx.signerId][1].public_key
              /\ tx.nonce = NonceOn(LedgerAt(tx.epoch), tx.network, tx.signerId,
                                    tx.publicKey) + 1
    /\ \A i, j \in 1..Len(built) :
          (/\ built[i].signerId = built[j].signerId
           /\ built[i].publicKey = built[j].publicKey
           /\ built[i].network = built[j].network
           /\ built[i].epoch = built[j].epoch) => built[i].nonce = built[j].nonce

\* C28 witness: two requests in flight together have both built a transaction
\* for the same sender, and the two carry the same nonce
C28_Witness ==
    /\ Len(built) = 2
    /\ started = 2
    /\ connects = 2
    /\ built[1].signerId = built[2].signerId
    /\ built[1].network = built[2].network
    /\ built[1].epoch = built[2].epoch
    /\ built[1].nonce = built[2].nonce

\* a non-empty string of decimal digits
IsIntegerString(s) ==
    /\ Len(s) >= 1
    /\ \A i \in 1..Len(s) : s[i] \in {"0", "1", "2", "3", "4", "5", "6", "7", "8", "9"}

\* the strings of a JSON list of strings, read back from its characters
RECURSIVE ParseItems(_, _)
ParseItems(chars, i) ==
    IF i > Len(chars) \/ chars[i] = "]" THEN << >>
    ELSE IF chars[i] = "," THEN ParseItems(chars, i + 1)
    ELSE LET close == CHOOSE j \in (i + 1)..Len(chars) :
                         /\ chars[j] = "\""
                         /\ \A k \in (i + 1)..(j - 1) : chars[k] # "\""
         IN  << SubSeq(chars, i + 1, close - 1) >> \o ParseItems(chars, close + 1)

RECURSIVE SumOfPrizes(_)
SumOfPrizes(prizes) ==
    IF prizes = << >> THEN 0
    ELSE DecimalValue(prizes[1]) + SumOfPrizes(Tail(prizes))

\* what C29 says of the transactions that are built: one create_bounty call,
\* the deposit the decimal numeral of the sum, the arguments the prizes in order
C29_SumAndArguments ==
    \A i \in 1..Len(built) :
        LET tx == built[i]
        IN  /\ Len(tx.actions) = 1
            /\ tx.actions[1].methodName = "create_bounty"
            /\ ParseItems(tx.actions[1].args, 5) = tx.prizes
            /\ (\A k \in 1..Len(tx.prizes) : IsIntegerString(tx.prizes[k])) =>
                  /\ IsIntegerString(tx.actions[1].deposit)
                  /\ DecimalValue(tx.actions[1].deposit) = SumOfPrizes(tx.prizes)

\* C29 as stated: a transaction is built only from prizes that are all integer
\* strings (and then as C29_SumAndArguments says); a prize that is not an
\* integer string makes the build fail.
C29_Original ==
    /\ C29_SumAndArguments
    /\ \A i \in 1..Len(built) :
          \A k \in 1..Len(built[i].prizes) : IsIntegerString(built[i].prizes[k])

----------------------------------------------------------------------------
(* BountripController.store (src/controllers/bountrip.controller.js:185-308) *)
(* over the record store: one user table, one bounty table.                  *)

\* the JavaScript value null
NullV == [t |-> "null"]
NaN   == [t |-> "NaN"]

Chars(s) ==
    CASE s = "undefined" -> << "u", "n", "d", "e", "f", "i", "n", "e", "d" >>
      [] s = "null"      -> << "n", "u", "l", "l" >>

\* String(x): 'undefined', 'null', the decimal numeral of a number, a string itself
JsString(x) ==
    CASE x = Undef        -> Chars("undefined")
      [] x = NullV        -> Chars("null")
      [] x.t = "number"   -> BigIntToString(x.v)
      [] x.t = "text"     -> x.v

\* parseInt(x): a number is itself, a string gives the number of its leading
\* digits, anything without leading digits gives NaN
ParseInt(x) ==
    IF x.t = "number" THEN Num(x.v)
    ELSE IF x.t = "text" /\ Len(x.v) >= 1 /\ IsDigit(x.v[1])
    THEN LET n == CHOOSE k \in 1..Len(x.v) :
                     /\ \A i \in 1..k : IsDigit(x.v[i])
                     /\ (k < Len(x.v) => ~IsDigit(x.v[k + 1]))
         IN  Num(DecimalValue(SubSeq(x.v, 1, n)))
    ELSE NaN

\* s.trim() for the strings used here
Trim(s) == IF s = " " THEN "" ELSE s

\* x && x.trim() !== ''
HasText(x) == Truthy(x) /\ Trim(x.v) # ""

\* idOnChain && idOnChain !== 'undefined' && idOnChain !== '' && idOnChain !== 'null'
\* for the string idOnChain of line 223
Meaningful(s) == s # << >> /\ s # Chars("undefined") /\ s # Chars("null")

\* metas objects: no key at all, or the key placePhotos with its list
MetasObject(photos) == [t |-> "object", placePhotos |-> photos]
MetasKeys(m) == IF m.placePhotos = Absent THEN {} ELSE {"placePhotos"}

\* lines 238-247: the keys of updateData
UpdateKeysWithoutIdOnChain(title, onChain, metas) ==
    {"idUser"}
       \cup (IF HasText(title) THEN {"title"} ELSE {})
       \cup (IF metas # Undef /\ MetasKeys(metas) # {} THEN {"metas"} ELSE {})
UpdateKeys(title, onChain, metas) ==
    {"idUser"}
       \cup (IF HasText(title) THEN {"title"} ELSE {})
       \cup (IF Meaningful(onChain) THEN {"idOnChain"} ELSE {})
       \cup (IF metas # Undef /\ MetasKeys(metas) # {} THEN {"metas"} ELSE {})

\* the bounty table before the call: one row, id 1
InitialBounties ==
    << [id |-> 1, idOnChain |-> << "5" >>, idUser |-> "alice.near",
        title |-> Str("Old title"), metas |-> MetasObject(Absent)] >>

Response(statusCode, message) == [statusCode |-> statusCode, message |-> message]

IdNearChoices    == {Undef, Str("alice.near"), Str("stranger.near")}
IdOnChainChoices == {Undef, NullV, Txt(<< >>), Txt(<< "7" >>), Txt(Chars("null")),
                     Txt(Chars("undefined")), Num(0)}
IdBountyChoices  == {Undef, Num(1), Num(2), Txt(<< "1" >>)}
TitleChoices     == {Undef, Str(" "), Str("Trip")}
MetasChoices     == {Undef, MetasObject(Absent), MetasObject(Arr(<< >>)),
                     MetasObject(Arr(<< "https://photos/1" >>))}

\* lines 190-200: the photos of metas are uploaded before anything is
\* validated; metas undefined makes metas.placePhotos throw, an upload may fail
StoreUpload ==
    /\ stPos = "photos"
    /\ IF req.metas = Undef
       THEN /\ res' = Response(500, "Cannot read properties of undefined")
            /\ stPos' = "responded"
       ELSE IF Truthy(req.metas.placePhotos) /\ Len(req.metas.placePhotos.v) > 0
       THEN \/ /\ stPos' = "validate"
               /\ UNCHANGED res
            \/ /\ res' = Response(500, "upload failed")
               /\ stPos' = "responded"
       ELSE /\ stPos' = "validate"
            /\ UNCHANGED res
    /\ UNCHANGED <<req, users, bounties, stUser, bountyDb, idOnChain, writes, aiVars, nearVars>>

\* lines 203-209
StoreValidate ==
    /\ stPos = "validate"
    /\ IF ~Truthy(req.idNear)
       THEN /\ res' = Response(400, "Missing required field: idNear")
            /\ stPos' = "responded"
       ELSE /\ stPos' = "user"
            /\ UNCHANGED res
    /\ UNCHANGED <<req, users, bounties, stUser, bountyDb, idOnChain, writes, aiVars, nearVars>>

\* lines 211-221
StoreFindUser ==
    /\ stPos = "user"
    /\ IF req.idNear.v \in users
       THEN /\ stUser' = req.idNear.v
            /\ stPos' = "lookup"
            /\ UNCHANGED res
       ELSE /\ res' = Response(404, "User not found.")
            /\ stPos' = "responded"
            /\ UNCHANGED stUser
    /\ UNCHANGED <<req, users, bounties, bountyDb, idOnChain, writes, aiVars, nearVars>>

\* lines 223-232: String(idOnChain) and, when it is meaningful, findUnique by
\* parseInt(idBounty); for an id that is NaN the record store either rejects
\* the query or finds nothing
StoreLookup ==
    /\ stPos = "lookup"
    /\ idOnChain' = JsString(req.idOnChain)
    /\ IF Meaningful(idOnChain')
       THEN LET id == ParseInt(req.idBounty)
            IN  IF id = NaN
                THEN \/ /\ res' = Response(500, "Invalid value for argument id")
                        /\ stPos' = "responded"
                        /\ UNCHANGED bountyDb
                     \/ /\ bountyDb' = Null
                        /\ stPos' = "write"
                        /\ UNCHANGED res
                ELSE /\ bountyDb' = IF id.v \in 1..Len(bounties) THEN bounties[id.v] ELSE Null
                     /\ stPos' = "write"
                     /\ UNCHANGED res
       ELSE /\ stPos' = "write"
            /\ UNCHANGED <<bountyDb, res>>
    /\ UNCHANGED <<req, users, bounties, stUser, writes, aiVars, nearVars>>

\* lines 235-275: the update branch with its own catch
StoreUpdate ==
    /\ stPos = "write"
    /\ bountyDb # Null
    /\ LET keys == UpdateKeys(req.title, idOnChain, req.metas)
           id   == ParseInt(req.idBounty).v
       IN  IF Cardinality(keys) > 1
           THEN \/ /\ bounties' =
                         [bounties EXCEPT
                            ![id] = [@ EXCEPT
                                       !.idUser = stUser,
                                       !.title = IF "title" \in keys THEN req.title ELSE @,
                                       !.idOnChain = IF "idOnChain" \in keys THEN idOnChain ELSE @,
                                       !.metas = IF "metas" \in keys THEN req.metas ELSE @]]
                   /\ writes' = Append(writes, [op |-> "update", id |-> id])
                   /\ res' = Response(200, "Bounty updated successfully.")
                \/ /\ res' = Response(500, "Error updating bounty.")
                   /\ UNCHANGED <<bounties, writes>>
           ELSE /\ res' = Response(200, "No fields to update.")
                /\ UNCHANGED <<bounties, writes>>
    /\ stPos' = "responded"
    /\ UNCHANGED <<req, users, stUser, bountyDb, idOnChain, aiVars, nearVars>>

\* lines 278-296: no bounty found, a new one is created
StoreCreate ==
    /\ stPos = "write"
    /\ bountyDb = Null
    /\ \/ /\ bounties' = Append(bounties,
                                [id        |-> Len(bounties) + 1,
                                 idOnChain |-> idOnChain,
                                 idUser    |-> stUser,
                                 title     |-> req.title,
                                 metas     |-> req.metas])
          /\ writes' = Append(writes, [op |-> "create", id |-> Len(bounties) + 1])
          /\ res' = Response(201, "Bounty created successfully.")
       \/ /\ res' = Response(500, "Error creating bounty.")
          /\ UNCHANGED <<bounties, writes>>
    /\ stPos' = "responded"
    /\ UNCHANGED <<req, users, stUser, bountyDb, idOnChain, aiVars, nearVars>>

StoreInit ==
    /\ AdjustIdle
    /\ SendIdle
    /\ NearIdle
    /\ req \in [idNear : IdNearChoices, idOnChain : IdOnChainChoices,
                idBounty : IdBountyChoices, title : TitleChoices, metas : MetasChoices]
    /\ stPos = "photos"
    /\ users = {"alice.near"}
    /\ bounties = InitialBounties
    /\ stUser = Null
    /\ bountyDb = Null
    /\ idOnChain = req.idOnChain
    /\ res = NoResponse
    /\ writes = << >>

StoreNext ==
    \/ StoreUpload
    \/ StoreValidate
    \/ StoreFindUser
    \/ StoreLookup
    \/ StoreUpdate
    \/ StoreCreate

StoreSpec == StoreInit /\ [][StoreNext]_vars

\* idOnChain as the request gave it is not undefined, null or empty
GivenOnChain == req.idOnChain \notin {Undef, NullV, Txt(<< >>)}

\* the row idBounty names was in the bounty table when the call began
NamedBounty ==
    IF req.idBounty \in {Num(1), Txt(<< "1" >>)} THEN 1 ELSE 0

\* what C30 says, for a given reading of "idOnChain is meaningful"
StoreWritesOnce(meaningful) ==
    /\ Len(writes) <= 1
    /\ stPos # "responded" => writes = << >>
    /\ stPos = "responded" =>
          /\ res.message # "No fields to update."
          /\ res.statusCode \in {200, 201} <=> Len(writes) = 1
          /\ res.statusCode \in {200, 201} =>
                IF meaningful /\ NamedBounty # 0
                THEN /\ res.statusCode = 200
                     /\ writes = << [op |-> "update", id |-> NamedBounty] >>
                     /\ Len(bounties) = Len(InitialBounties)
                ELSE /\ res.statusCode = 201
                     /\ writes = << [op |-> "create", id |-> Len(InitialBounties) + 1] >>
                     /\ SubSeq(bounties, 1, Len(InitialBounties)) = InitialBounties
          /\ res.statusCode \in {400, 404} =>
                /\ writes = << >>
                /\ bounties = InitialBounties
          /\ res.statusCode = 400 => ~Truthy(req.idNear)
          /\ res.statusCode = 404 => req.idNear = Str("stranger.near")

\* C30 as stated: store writes exactly one bounty per successful call, an
\* update of bounty idBounty when idOnChain is not undefined, null or empty and
\* that bounty exists, and a create otherwise; never both; 'No fields to
\* update' is never answered; a 400 or 404 writes nothing.
C30_Original == StoreWritesOnce(GivenOnChain)

\* C30 amended: the same, where a meaningful idOnChain is one whose String()
\* form is not empty, not 'undefined' and not 'null': the strings 'undefined'
\* and 'null' count as the values undefined and null do.
C30_StoreWrites ==
    StoreWritesOnce(GivenOnChain /\ req.idOnChain \notin {Txt(Chars("null")),
                                                         Txt(Chars("undefined"))})

\* C30 witness: a call with idOnChain '7' and idBounty 1 updated bounty 1 with
\* no title given, and created nothing
C30_Witness ==
    /\ stPos = "responded"
    /\ res.statusCode = 200
    /\ req.idOnChain = Txt(<< "7" >>)
    /\ req.title = Undef
    /\ req.metas = MetasObject(Absent)
    /\ writes = << [op |-> "update", id |-> 1] >>
    /\ bounties[1].idOnChain = << "7" >>

=============================================================================
